---------------------------- MODULE Spec2Model ----------------------------
(***************************************************************************)
(* Model of the weather_humidity service.                                  *)
(*                                                                         *)
(*   - app/utils/humidity.py and main.py: the two humidity conversions,    *)
(*     computed as the code computes them, on a decimal floating-point     *)
(*     arithmetic with 8 significant digits that keeps Python's float      *)
(*     behaviour where it decides an outcome: ZeroDivisionError on a zero  *)
(*     divisor, OverflowError from math.exp, silent overflow to inf and    *)
(*     underflow to 0.0 in * and /, nan, TypeError on None, and round()    *)
(*     to a number of decimals (half-even).                                *)
(*   - main.py: the /get_humidity_info handler with its file cache, the    *)
(*     weather provider and the scheduled clean-up.                        *)
(*   - app/services/weather_api.py: WeatherAPI.get_weather_data with its   *)
(*     own cache.                                                          *)
(***************************************************************************)
EXTENDS Integers, Sequences, FiniteSets, TLC

(***************************************************************************)
(* Values.  A Python value that the calculators handle is a record         *)
(*   [k, m, e, x]:                                                         *)
(*   k = "fin"  : the float m * 10^e, m = 0 or 10^7 <= |m| < 10^8          *)
(*   k = "inf"  : +inf (m = 1) or -inf (m = -1)                            *)
(*   k = "nan"  : nan                                                      *)
(*   k = "None" : None                                                     *)
(*   k = "exc"  : an exception x raised while evaluating an expression     *)
(*   k = "raise": an exception x that left the function                    *)
(***************************************************************************)
MantMin == 10^7
MantLim == 10^8

Fin(m, e) == [k |-> "fin", m |-> m, e |-> e, x |-> ""]
Zero == Fin(0, 0)
Inf(s) == [k |-> "inf", m |-> s, e |-> 0, x |-> ""]
NaN == [k |-> "nan", m |-> 0, e |-> 0, x |-> ""]
None == [k |-> "None", m |-> 0, e |-> 0, x |-> ""]
Exc(name) == [k |-> "exc", m |-> 0, e |-> 0, x |-> name]
Raised(name) == [k |-> "raise", m |-> 0, e |-> 0, x |-> name]

IsFin(a) == a.k = "fin"
IsNum(a) == a.k \in {"fin", "inf", "nan"}
IsExc(a) == a.k = "exc"
IsZero(a) == a.k = "fin" /\ a.m = 0

Abs(n) == IF n < 0 THEN -n ELSE n
Sgn(n) == IF n < 0 THEN -1 ELSE 1

\* mag / d rounded to the nearest integer, ties to even; sticky says that
\* nonzero digits were already dropped below mag.
RoundDiv(mag, d, sticky) ==
    LET q == mag \div d
        r == mag % d
    IN  IF 2 * r > d \/ (2 * r = d /\ (sticky \/ q % 2 = 1)) THEN q + 1 ELSE q

RECURSIVE ScaleUp(_, _)
ScaleUp(mag, e) ==
    IF mag >= MantMin THEN <<mag, e>> ELSE ScaleUp(mag * 10, e - 1)

\* The double range: above 1.7976931e308 a result is inf, below half the
\* smallest subnormal (2.4703282e-324) it is 0.0.
Pack(s, mag, e) ==
    IF e + 7 > 308 \/ (e + 7 = 308 /\ mag > 17976931) THEN Inf(s)
    ELSE IF e + 7 < -324 \/ (e + 7 = -324 /\ mag < 24703282) THEN Zero
    ELSE Fin(s * mag, e)

\* The float nearest to s * mag * 10^e, for 0 <= mag < 2^31.
Norm(s, mag, e, sticky) ==
    IF mag = 0 THEN Zero
    ELSE IF mag < MantMin THEN
        LET u == ScaleUp(mag, e) IN Pack(s, u[1], u[2])
    ELSE
        LET d == IF mag >= 10 * MantLim THEN 100 ELSE IF mag >= MantLim THEN 10 ELSE 1
            q == RoundDiv(mag, d, sticky)
            sh == IF d = 100 THEN 2 ELSE IF d = 10 THEN 1 ELSE 0
        IN  IF q >= MantLim THEN Pack(s, q \div 10, e + sh + 1)
            ELSE Pack(s, q, e + sh)

\* The float written m * 10^e in the source or in a request.
D(m, e) == Norm(Sgn(m), Abs(m), e, FALSE)

Neg(a) == IF a.k \in {"fin", "inf"} THEN [a EXCEPT !.m = -a.m] ELSE a

(***************************************************************************)
(* a * b on floats.                                                        *)
(***************************************************************************)
MulFin(a, b) ==
    LET x == Abs(a.m)
        y == Abs(b.m)
        s == Sgn(a.m) * Sgn(b.m)
        x1 == x \div 10000
        x0 == x % 10000
        y1 == y \div 10000
        y0 == y % 10000
        hi == x1 * y1
        mid == x1 * y0 + x0 * y1
        lo == x0 * y0
        t == mid + (lo \div 10000)
        q == hi + (t \div 10000)
        r == ((t % 10000) * 10000) + (lo % 10000)
    IN  \* x * y = q * 10^8 + r, 0 <= r < 10^8
        IF x = 0 \/ y = 0 THEN Zero
        ELSE IF q >= MantMin THEN
            LET up == r > 5 * MantMin \/ (r = 5 * MantMin /\ q % 2 = 1)
            IN  Norm(s, IF up THEN q + 1 ELSE q, a.e + b.e + 8, FALSE)
        ELSE
            LET q2 == (q * 10) + (r \div MantMin)
                r2 == r % MantMin
                up == 2 * r2 > MantMin \/ (2 * r2 = MantMin /\ q2 % 2 = 1)
            IN  Norm(s, IF up THEN q2 + 1 ELSE q2, a.e + b.e + 7, FALSE)

Mul(a, b) ==
    IF IsExc(a) THEN a
    ELSE IF IsExc(b) THEN b
    ELSE IF a.k = "None" \/ b.k = "None" THEN Exc("TypeError")
    ELSE IF a.k = "nan" \/ b.k = "nan" THEN NaN
    ELSE IF a.k = "inf" \/ b.k = "inf" THEN
        IF IsZero(a) \/ IsZero(b) THEN NaN ELSE Inf(Sgn(a.m) * Sgn(b.m))
    ELSE MulFin(a, b)

(***************************************************************************)
(* a / b on floats: ZeroDivisionError when b = 0.0.                        *)
(***************************************************************************)
RECURSIVE LongDiv(_, _, _, _)
LongDiv(r, y, n, acc) ==
    IF n = 0 THEN <<acc, r>>
    ELSE LongDiv((r * 10) % y, y, n - 1, (acc * 10) + ((r * 10) \div y))

DivFin(a, b) ==
    LET x == Abs(a.m)
        y == Abs(b.m)
        s == Sgn(a.m) * Sgn(b.m)
        qr == LongDiv(x % y, y, 8, x \div y)
        q == qr[1]
        r == qr[2]
    IN  \* x / y = (q + r / y) * 10^-8, 10^7 <= q < 10^9
        IF x = 0 THEN Zero
        ELSE IF q >= MantLim THEN Norm(s, q, a.e - b.e - 8, r > 0)
        ELSE LET up == 2 * r > y \/ (2 * r = y /\ q % 2 = 1)
             IN  Norm(s, IF up THEN q + 1 ELSE q, a.e - b.e - 8, FALSE)

Div(a, b) ==
    IF IsExc(a) THEN a
    ELSE IF IsExc(b) THEN b
    ELSE IF a.k = "None" \/ b.k = "None" THEN Exc("TypeError")
    ELSE IF IsZero(b) THEN Exc("ZeroDivisionError")
    ELSE IF a.k = "nan" \/ b.k = "nan" THEN NaN
    ELSE IF a.k = "inf" THEN
        IF b.k = "inf" THEN NaN ELSE Inf(Sgn(a.m) * Sgn(b.m))
    ELSE IF b.k = "inf" THEN Zero
    ELSE DivFin(a, b)

(***************************************************************************)
(* a + b on floats.                                                        *)
(***************************************************************************)
AddFin(a, b) ==
    LET big == IF a.e >= b.e THEN a ELSE b
        sml == IF a.e >= b.e THEN b ELSE a
        d == big.e - sml.e
    IN  IF a.m = 0 THEN b
        ELSE IF b.m = 0 THEN a
        ELSE IF d >= 10 THEN big
        ELSE
            LET sb == Sgn(sml.m) * RoundDiv(Abs(sml.m) * 10, 10^d, FALSE)
                sum == big.m * 10 + sb
            IN  Norm(Sgn(sum), Abs(sum), big.e - 1, FALSE)

Add(a, b) ==
    IF IsExc(a) THEN a
    ELSE IF IsExc(b) THEN b
    ELSE IF a.k = "None" \/ b.k = "None" THEN Exc("TypeError")
    ELSE IF a.k = "nan" \/ b.k = "nan" THEN NaN
    ELSE IF a.k = "inf" THEN
        IF b.k = "inf" /\ b.m # a.m THEN NaN ELSE a
    ELSE IF b.k = "inf" THEN b
    ELSE AddFin(a, b)

Sub(a, b) == Add(a, Neg(b))

\* a < b, a <= b for finite floats
Less(a, b) == Sub(a, b).m < 0
LessEq(a, b) == Sub(b, a).m >= 0

\* |a|, and lo <= a <= hi, for finite floats
AbsF(a) == IF a.m < 0 THEN Neg(a) ELSE a
Between(a, lo, hi) == a.k = "fin" /\ LessEq(lo, a) /\ LessEq(a, hi)

\* The integer nearest to a finite float below 2^31 in magnitude.
ToInt(a) ==
    IF a.e >= 0 THEN a.m * (10^a.e)
    ELSE IF a.e < -9 THEN 0
    ELSE Sgn(a.m) * RoundDiv(Abs(a.m), 10^(-a.e), FALSE)

(***************************************************************************)
(* math.exp(a): OverflowError above ln(DBL_MAX) = 709.78271, 0.0 below     *)
(* -745.13322; in between 10^n * exp(r) with a = n * ln(10) + r and exp(r) *)
(* summed from its power series.                                           *)
(***************************************************************************)
LN10 == D(23025851, -7)
ExpMax == D(70978271, -5)
ExpMin == D(-74513322, -5)

RECURSIVE ExpSeries(_, _, _, _)
ExpSeries(r, term, sum, i) ==
    IF i > 20 \/ IsZero(term) \/ term.e < sum.e - 9 THEN sum
    ELSE LET t == Div(Mul(term, r), D(i, 0))
         IN  ExpSeries(r, t, Add(sum, t), i + 1)

ExpFin(a) ==
    IF Less(ExpMax, a) THEN Exc("OverflowError")
    ELSE IF Less(a, ExpMin) THEN Zero
    ELSE LET n == ToInt(Div(a, LN10))
             r == Sub(a, Mul(D(n, 0), LN10))
             s == ExpSeries(r, D(1, 0), D(1, 0), 1)
         IN  Pack(1, s.m, s.e + n)

Exp(a) ==
    IF IsExc(a) THEN a
    ELSE IF a.k = "None" THEN Exc("TypeError")
    ELSE IF a.k = "nan" THEN NaN
    ELSE IF a.k = "inf" THEN (IF a.m > 0 THEN a ELSE Zero)
    ELSE ExpFin(a)

(***************************************************************************)
(* round(a, nd): the nearest multiple of 10^-nd, ties to even; inf and nan *)
(* are returned as they are.                                               *)
(***************************************************************************)
Round(a, nd) ==
    IF IsExc(a) THEN a
    ELSE IF a.k = "None" THEN Exc("TypeError")
    ELSE IF a.k # "fin" THEN a
    ELSE IF a.e >= -nd THEN a
    ELSE IF -nd - a.e > 9 THEN Zero
    ELSE Norm(Sgn(a.m), RoundDiv(Abs(a.m), 10^(-nd - a.e), FALSE), -nd, FALSE)

(***************************************************************************)
(* app/utils/humidity.py                                                   *)
(***************************************************************************)
\* the molar mass of water rounded to 18 g/mol
mw_rounded == D(18, 0)

R == D(83144626, -7)
mw == D(1801528, -5)

\* the Magnus denominator written with 273.15 in place of 243.5
SaturationPressure_Kelvin(temp_c) ==
    Mul(D(6112, -3), Exp(Div(Mul(D(1767, -2), temp_c), Add(temp_c, D(27315, -2)))))

\* es = 6.112 * math.exp((17.67 * temp_c) / (temp_c + 243.5))
SaturationPressure(temp_c) ==
    Mul(D(6112, -3), Exp(Div(Mul(D(1767, -2), temp_c), Add(temp_c, D(2435, -1)))))

\* The body of the try block of calculate_absolute_humidity: the value of
\* absolute_humidity before rounding, or the exception raised on the way.
AbsoluteHumidityExpr(temp_c, relative_humidity) ==
    LET es == SaturationPressure(temp_c)
        e == Mul(es, Div(relative_humidity, D(100, 0)))
        temp_k == Add(temp_c, D(27315, -2))
    IN  Mul(Div(Mul(e, mw), Mul(R, temp_k)), D(100, 0))

\* The body of the try block of calculate_relative_humidity_for_room.
RoomHumidityExpr(absolute_humidity, room_temp_c) ==
    LET es_room == SaturationPressure(room_temp_c)
        temp_k == Add(room_temp_c, D(27315, -2))
        e_room == Div(Mul(Mul(absolute_humidity, R), temp_k), Mul(mw, D(100, 0)))
    IN  IF IsExc(es_room) THEN es_room
        ELSE Mul(Div(e_room, es_room), D(100, 0))

\* try: ... except (names): return None
TryExcept(v, caught) ==
    IF IsExc(v) THEN (IF v.x \in caught THEN None ELSE Raised(v.x)) ELSE v

\* the except clause without ZeroDivisionError
ArithmeticErrors_NoZeroDivision == {"ValueError", "OverflowError"}

ArithmeticErrors == {"ValueError", "ZeroDivisionError", "OverflowError"}

\* the guard written with "and" in place of "or"
calculate_absolute_humidity_and(temp_c, relative_humidity) ==
    IF temp_c = None /\ relative_humidity = None THEN None
    ELSE TryExcept(Round(AbsoluteHumidityExpr(temp_c, relative_humidity), 2),
                   {"ValueError", "ZeroDivisionError", "OverflowError"})

\* the result rounded to 1 decimal place in place of 2
calculate_absolute_humidity_round1(temp_c, relative_humidity) ==
    IF temp_c = None \/ relative_humidity = None THEN None
    ELSE TryExcept(Round(AbsoluteHumidityExpr(temp_c, relative_humidity), 1),
                   {"ValueError", "ZeroDivisionError", "OverflowError"})

calculate_absolute_humidity(temp_c, relative_humidity) ==
    IF temp_c = None \/ relative_humidity = None THEN None
    ELSE TryExcept(Round(AbsoluteHumidityExpr(temp_c, relative_humidity), 2),
                   ArithmeticErrors)

calculate_relative_humidity_for_room(absolute_humidity, room_temp_c) ==
    IF absolute_humidity = None \/ room_temp_c = None THEN None
    ELSE TryExcept(Round(RoomHumidityExpr(absolute_humidity, room_temp_c), 1),
                   ArithmeticErrors)

(***************************************************************************)
(* main.py: the same two conversions, with the whole body in a try block   *)
(* that catches Exception.                                                 *)
(***************************************************************************)
AnyException == ArithmeticErrors \cup {"TypeError"}

main_calculate_absolute_humidity(temp_c, relative_humidity) ==
    IF temp_c = None \/ relative_humidity = None THEN None
    ELSE TryExcept(Round(AbsoluteHumidityExpr(temp_c, relative_humidity), 2),
                   AnyException)

\* the result clamped to [0, 100]
main_calculate_relative_humidity_for_room_clamped(absolute_humidity, room_temp_c) ==
    LET v == IF absolute_humidity = None \/ room_temp_c = None THEN None
             ELSE TryExcept(Round(RoomHumidityExpr(absolute_humidity, room_temp_c), 1),
                            {"ValueError", "ZeroDivisionError", "OverflowError", "TypeError"})
    IN  IF ~IsFin(v) THEN v
        ELSE IF v.m < 0 THEN D(0, 0)
        ELSE IF Less(D(100, 0), v) THEN D(100, 0)
        ELSE v

main_calculate_relative_humidity_for_room(absolute_humidity, room_temp_c) ==
    IF absolute_humidity = None \/ room_temp_c = None THEN None
    ELSE TryExcept(Round(RoomHumidityExpr(absolute_humidity, room_temp_c), 1),
                   AnyException)

(***************************************************************************)
(* Calls of the calculators.  calc is the last call made by a caller of    *)
(* the pure functions: which module's function (impl), which call (fn),    *)
(* its arguments and what came back.  fn = "abs+room" is a call of         *)
(* calculate_relative_humidity_for_room on the result of a call of         *)
(* calculate_absolute_humidity, as get_humidity_info chains them.          *)
(***************************************************************************)
VARIABLES
    calc,     \* the last direct call of a calculator
    clock,    \* datetime.now(), in hours since the service started
    cache,    \* the files of CACHE_DIR (main.py): cache key -> file content
    req,      \* the /get_humidity_info request being handled (main.py)
    api_cache,  \* the files WeatherAPI keeps in its cache_dir: name -> file
    api_call,   \* the WeatherAPI.get_weather_data call in progress
    fs,       \* one cache file of CACHE_DIR as the file system holds it
    thr,      \* the request threads that run get_humidity_info concurrently
    cln       \* the scheduler's thread, running clean_cache

\* the state of app/services/weather_api.py
avars == <<api_cache, api_call>>

\* the state of main.py's cache file under concurrent threads
cvars == <<fs, thr, cln>>

svars == <<clock, cache, req, avars, cvars>>
vars == <<calc, clock, cache, req, avars, cvars>>

TempCells == 25
RhCells == 20

Impls == {"utils", "main"}

\* -50.00 .. 50.00 in TempCells steps, and the temperatures where the
\* arithmetic degenerates: the pole of the Magnus exponent (-243.5), its
\* neighbourhood where exp overflows (-245), gives inf (-249.72) or
\* underflows to 0.0 (-243.4), absolute zero (-273.15) and below (-300).
TempGrid == { D(-5000 + ((i * 10000) \div TempCells), -2) : i \in 0..TempCells }
TempArgs == TempGrid \cup
    { D(20, 0), D(22, 0), D(-2435, -1), D(-245, 0), D(-24972, -2),
      D(-2434, -1), D(-27315, -2), D(-300, 0), None }

\* 0.00 .. 100.00 in RhCells steps, the value of the worked example, and
\* values outside the nominal range
RhGrid == { D((i * 10000) \div RhCells, -2) : i \in 0..RhCells }
RhArgs == RhGrid \cup { D(50, 0), D(-10, 0), D(150, 0), None }

AhArgs == { D(865, -2), D(5, 0), D(0, 0), D(-5, 0), D(100, 0), None }
RoomArgs == { D(22, 0) }

AbsoluteOf(impl, t, h) ==
    IF impl = "utils" THEN calculate_absolute_humidity(t, h)
    ELSE main_calculate_absolute_humidity(t, h)

RoomOf(impl, ah, rt) ==
    IF impl = "utils" THEN calculate_relative_humidity_for_room(ah, rt)
    ELSE main_calculate_relative_humidity_for_room(ah, rt)

NoCall == [impl |-> "none", fn |-> "none", temp_c |-> None,
           relative_humidity |-> None, absolute_humidity |-> None,
           room_temp_c |-> None, room_rh |-> None]

CalcInit == calc = NoCall

CallAbsolute ==
    /\ calc.fn = "none"
    /\ \E impl \in Impls, t \in TempArgs, h \in RhArgs :
         calc' = [impl |-> impl, fn |-> "abs", temp_c |-> t,
                  relative_humidity |-> h,
                  absolute_humidity |-> AbsoluteOf(impl, t, h),
                  room_temp_c |-> None, room_rh |-> None]
    /\ UNCHANGED svars

CallRoom ==
    /\ calc.fn = "none"
    /\ \E impl \in Impls, ah \in AhArgs, rt \in TempArgs :
         calc' = [impl |-> impl, fn |-> "room", temp_c |-> None,
                  relative_humidity |-> None, absolute_humidity |-> ah,
                  room_temp_c |-> rt, room_rh |-> RoomOf(impl, ah, rt)]
    /\ UNCHANGED svars

\* the caller passes what calculate_absolute_humidity returned, unless it
\* raised
CallRoomOnResult ==
    /\ calc.fn = "abs"
    /\ calc.absolute_humidity.k # "raise"
    /\ \E rt \in {calc.temp_c} \cup RoomArgs :
         calc' = [calc EXCEPT !.fn = "abs+room", !.room_temp_c = rt,
                  !.room_rh = RoomOf(calc.impl, calc.absolute_humidity, rt)]
    /\ UNCHANGED svars

CallReturn ==
    /\ calc.fn # "none"
    /\ calc' = NoCall
    /\ UNCHANGED svars

CalcNext == CallAbsolute \/ CallRoom \/ CallRoomOnResult \/ CallReturn

(***************************************************************************)
(* main.py: configuration, cache files and the weather provider.           *)
(*                                                                         *)
(* A JSON body is [kind, temp, humidity]: kind = "weather" is an object    *)
(* with main.temp and main.humidity (either may be null), kind = "empty"   *)
(* is the object {}, kind = "notjson" is a body that response.json()       *)
(* cannot parse, kind = "none" is Python's None.                           *)
(***************************************************************************)
CACHE_TTL == 1
MAX_CACHE_SIZE == 1
MaxClock == 2

Body(kind, t, h) == [kind |-> kind, temp |-> t, humidity |-> h]
NoData == Body("none", None, None)
EmptyBody == Body("empty", None, None)
NotJson == Body("notjson", None, None)

\* bool(x) of a parsed body, as in "if cached_data:"
Truthy(d) == d.kind = "weather"

\* What the provider may answer: status 0 stands for requests.get raising.
ProviderResponses ==
    { [status |-> 200, body |-> Body("weather", D(30, 0), D(90, 0))],
      [status |-> 200, body |-> Body("weather", None, D(50, 0))],
      [status |-> 200, body |-> EmptyBody],
      [status |-> 200, body |-> NotJson],
      [status |-> 401, body |-> EmptyBody],
      [status |-> 0, body |-> NoData] }

\* The query strings: lat and lon (None when missing), two of them within
\* the same 4-decimal cell, one outside the valid range.
CoordArgs ==
    { <<D(5575121, -5), D(3761556, -5)>>,
      <<D(5575124, -5), D(3761556, -5)>>,
      <<D(5575340, -5), D(3761556, -5)>>,
      <<D(95, 0), D(3761556, -5)>>,
      <<None, D(3761556, -5)>> }

\* room_temp of the query string: None when it is not given
RoomTempArgs == { None, D(25, 0), D(45, 0), D(-2435, -1) }

\* get_cache_key: the md5 of the coordinates rounded to 4 decimals, which
\* is one key per pair of rounded coordinates
get_cache_key(lat, lon) == <<Round(lat, 4), Round(lon, 4)>>


NoFile == [exists |-> FALSE, timestamp |-> 0, weather_data |-> NoData]
File(ts, data) == [exists |-> TRUE, timestamp |-> ts, weather_data |-> data]

\* get_cached_weather, for the files cache at time now
get_cached_weather(files, now, lat, lon) ==
    LET cache_file == files[get_cache_key(lat, lon)]
    IN  IF ~cache_file.exists THEN NoData
        ELSE IF now - cache_file.timestamp < CACHE_TTL THEN cache_file.weather_data
        ELSE NoData

\* set_cached_weather: the files after the write
set_cached_weather(files, now, lat, lon, weather_data) ==
    [files EXCEPT ![get_cache_key(lat, lon)] = File(now, weather_data)]

\* clean_expired_cache: the files after it
clean_expired_cache(files, now) ==
    [k \in DOMAIN files |->
        IF files[k].exists /\ now - files[k].timestamp >= CACHE_TTL
        THEN NoFile ELSE files[k]]

Existing(files) == { k \in DOMAIN files : files[k].exists }

\* validate_room_temp of app/utils/validation.py: whether the decorator lets
\* the request through.  main.py does not apply it to get_humidity_info.
validate_room_temp(room_temp) == Between(room_temp, D(10, 0), D(40, 0))

\* validate_coordinates of main.py: the status it answers, 0 when it calls
\* the handler
validate_coordinates(lat, lon) ==
    IF lat = None \/ lon = None THEN 400
    ELSE IF ~Between(lat, D(-90, 0), D(90, 0)) \/ ~Between(lon, D(-180, 0), D(180, 0))
    THEN 400
    ELSE 0

\* the keys of the files that requests for CoordArgs can create
CacheKeys ==
    { get_cache_key(c[1], c[2]) :
        c \in { d \in CoordArgs : validate_coordinates(d[1], d[2]) = 0 } }

(***************************************************************************)
(* main.py: get_humidity_info, one request at a time.                      *)
(*   pc: idle -> lookup -> [fetch ->] compute -> done, or done at once     *)
(*   when a decorator answers.                                             *)
(*   found: what CACHE_DIR held for the request's key when it was looked   *)
(*   up ("absent", "expired", "fresh"); provider_calls: calls of           *)
(*   requests.get and provider_status the status of the provider's answer  *)
(*   (0 when requests.get raised, -1 when it was not called); the response *)
(*   is status, error and the result fields.                               *)
(***************************************************************************)
NoRequest ==
    [pc |-> "idle", lat |-> None, lon |-> None, room_arg |-> None,
     room_temp |-> None, found |-> "none", cached_data |-> NoData,
     provider_calls |-> 0, provider_status |-> -1, data |-> NoData,
     from_cache |-> FALSE,
     abs_humidity |-> None, room_rh |-> None, calculated |-> 0,
     status |-> 0, error |-> ""]

Respond(r, status, error) == [r EXCEPT !.pc = "done", !.status = status, !.error = error]

ServiceInit ==
    /\ clock = 0
    /\ cache = [k \in CacheKeys |-> NoFile]
    /\ req = NoRequest

\* The decorators and the first lines of the handler: validate_coordinates,
\* then the limiter (whose verdict is limited), then request.args.get.
Receive ==
    /\ req.pc = "idle"
    /\ \E c \in CoordArgs, rt \in RoomTempArgs, limited \in BOOLEAN :
         LET r == [NoRequest EXCEPT !.lat = c[1], !.lon = c[2], !.room_arg = rt]
         IN  req' = IF validate_coordinates(c[1], c[2]) # 0
                       THEN Respond(r, 400, "coordinates")
                    ELSE IF limited THEN Respond(r, 429, "rate limit")
                    ELSE [r EXCEPT !.pc = "lookup",
                                   !.room_temp = IF rt = None THEN D(22, 0) ELSE rt]
    /\ UNCHANGED <<cvars, avars, calc, clock, cache>>

\* cached_data = get_cached_weather(lat, lon); if cached_data: ...
Lookup ==
    /\ req.pc = "lookup"
    /\ LET cached_data == get_cached_weather(cache, clock, req.lat, req.lon)
           f == cache[get_cache_key(req.lat, req.lon)]
           found == IF ~f.exists THEN "absent"
                    ELSE IF clock - f.timestamp < CACHE_TTL THEN "fresh"
                    ELSE "expired"
       IN  req' = IF Truthy(cached_data)
                  THEN [req EXCEPT !.pc = "compute", !.found = found,
                                   !.cached_data = cached_data,
                                   !.data = cached_data, !.from_cache = TRUE]
                  ELSE [req EXCEPT !.pc = "fetch", !.found = found,
                                   !.cached_data = cached_data]
    /\ UNCHANGED <<cvars, avars, calc, clock, cache>>

\* requests.get, log_owm_interaction, the status check, response.json() and
\* set_cached_weather
Fetch ==
    /\ req.pc = "fetch"
    /\ \E response \in ProviderResponses :
         LET r == [req EXCEPT !.provider_calls = @ + 1,
                              !.provider_status = response.status]
         IN  IF response.status = 0 \/ response.body.kind = "notjson"
             THEN req' = Respond(r, 500, "internal") /\ cache' = cache
             ELSE IF response.status # 200
             THEN req' = Respond(r, 502, "provider") /\ cache' = cache
             ELSE /\ cache' = set_cached_weather(cache, clock, req.lat, req.lon,
                                                 response.body)
                  /\ req' = [r EXCEPT !.pc = "compute", !.data = response.body,
                                      !.from_cache = FALSE]
    /\ UNCHANGED <<cvars, avars, calc, clock>>

\* The calculators on the values this model's provider and requests can
\* give them, tabulated once.
WeatherBodies == { r.body : r \in { q \in ProviderResponses : q.body.kind = "weather" } }
RoomTemps == { IF rt = None THEN D(22, 0) ELSE rt : rt \in RoomTempArgs }

AbsoluteHumidityOf ==
    [b \in WeatherBodies |-> main_calculate_absolute_humidity(b.temp, b.humidity)]

RoomHumidityOf ==
    [b \in WeatherBodies, rt \in RoomTemps |->
        main_calculate_relative_humidity_for_room(AbsoluteHumidityOf[b], rt)]

\* data['main']['temp'] to the end of the handler
Compute ==
    /\ req.pc = "compute"
    /\ IF req.data.kind # "weather"
       THEN req' = Respond(req, 500, "internal")
       ELSE LET abs_humidity == AbsoluteHumidityOf[req.data]
                room_rh == RoomHumidityOf[req.data, req.room_temp]
            IN  IF abs_humidity = None
                THEN req' = Respond([req EXCEPT !.abs_humidity = abs_humidity,
                                                !.calculated = 1],
                                    500, "calculation")
                ELSE req' = Respond([req EXCEPT !.abs_humidity = abs_humidity,
                                                !.room_rh = room_rh,
                                                !.calculated = 2],
                                    200, "")
    /\ UNCHANGED <<cvars, avars, calc, clock, cache>>

\* time passes
Tick ==
    /\ clock < MaxClock
    /\ clock' = clock + 1
    /\ UNCHANGED <<cvars, avars, calc, cache, req>>

\* clean_cache, the scheduler's job: clean_expired_cache, then the oldest
\* files are removed while there are more than MAX_CACHE_SIZE (files of the
\* same age in the order the directory lists them)
clean_cache ==
    /\ LET files == clean_expired_cache(cache, clock)
           live == Existing(files)
       IN  \E keep \in SUBSET live :
             /\ Cardinality(keep) = IF Cardinality(live) > MAX_CACHE_SIZE
                                    THEN MAX_CACHE_SIZE ELSE Cardinality(live)
             /\ \A a \in live \ keep, b \in keep :
                    files[a].timestamp <= files[b].timestamp
             /\ cache' = [k \in DOMAIN files |-> IF k \in keep THEN files[k] ELSE NoFile]
    /\ cache' # cache
    /\ UNCHANGED <<cvars, avars, calc, clock, req>>

\* the response is sent; the next request may come
Finish ==
    /\ req.pc = "done"
    /\ req' = NoRequest
    /\ UNCHANGED <<cvars, avars, calc, clock, cache>>

(***************************************************************************)
(* app/services/weather_api.py: WeatherAPI.                                *)
(*                                                                         *)
(* The dict that get_weather_data caches and returns is a provider JSON    *)
(* object with the key from_cache added.  A cache file carries its mtime;  *)
(* status, lat and lon record the provider response and the call that      *)
(* wrote it.                                                               *)
(***************************************************************************)
cache_ttl == 1

ApiData(body, from_cache) == [body |-> body, from_cache |-> from_cache]
ApiNone == ApiData(NoData, FALSE)

\* What the provider may answer to WeatherAPI: status 0 stands for
\* requests.get raising (Timeout, ConnectionError).
ApiResponses ==
    { [status |-> 200, body |-> Body("weather", D(30, 0), D(90, 0))],
      [status |-> 200, body |-> EmptyBody],
      [status |-> 200, body |-> NotJson],
      [status |-> 203, body |-> Body("weather", D(20, 0), D(50, 0))],
      [status |-> 401, body |-> EmptyBody],
      [status |-> 0, body |-> NoData] }

\* the coordinates of the calls: WeatherAPI validates none
ApiCoordArgs == { c \in CoordArgs : c[1] # None /\ c[2] # None }

\* WeatherAPI._get_cache_key: the coordinates rounded to 2 decimals
WeatherAPI_get_cache_key(lat, lon) == <<"weather", Round(lat, 2), Round(lon, 2)>>

ApiCacheKeys == { WeatherAPI_get_cache_key(c[1], c[2]) : c \in ApiCoordArgs }

ApiNoFile ==
    [exists |-> FALSE, mtime |-> 0, data |-> ApiNone, status |-> 0,
     lat |-> None, lon |-> None]

\* WeatherAPI._read_from_cache, for the files at time now
WeatherAPI_read_from_cache(files, now, lat, lon) ==
    LET cache_file == files[WeatherAPI_get_cache_key(lat, lon)]
    IN  IF ~cache_file.exists THEN ApiNone
        ELSE IF now - cache_file.mtime > cache_ttl THEN ApiNone
        ELSE cache_file.data

\* WeatherAPI._save_to_cache: the files after the write
WeatherAPI_save_to_cache(files, now, lat, lon, data, status) ==
    [files EXCEPT ![WeatherAPI_get_cache_key(lat, lon)] =
        [exists |-> TRUE, mtime |-> now, data |-> data, status |-> status,
         lat |-> lat, lon |-> lon]]

\* response.raise_for_status() raises HTTPError
raise_for_status(status) == status >= 400 /\ status < 600

\* bool(x) of what _read_from_cache returns, as in "if cached_data:"
ApiTruthy(d) == d.body.kind \in {"weather", "empty"}

(***************************************************************************)
(* WeatherAPI.get_weather_data, one call at a time.                        *)
(*   pc: idle -> lookup -> [fetch ->] done.  age is the age of the cache   *)
(*   file the lookup returned (-1 when it returned None), result what the  *)
(*   call returns and raised whether it ends by raising.                   *)
(***************************************************************************)
NoApiCall ==
    [pc |-> "idle", lat |-> None, lon |-> None, age |-> -1,
     provider_calls |-> 0, response_status |-> -1, result |-> ApiNone,
     raised |-> FALSE]

ApiInit ==
    /\ api_cache = [k \in ApiCacheKeys |-> ApiNoFile]
    /\ api_call = NoApiCall

ApiCall ==
    /\ api_call.pc = "idle"
    /\ \E c \in ApiCoordArgs :
         api_call' = [NoApiCall EXCEPT !.pc = "lookup", !.lat = c[1], !.lon = c[2]]
    /\ UNCHANGED <<cvars, calc, clock, cache, req, api_cache>>

\* cached_data = self._read_from_cache(lat, lon); if cached_data: ...
ApiLookup ==
    /\ api_call.pc = "lookup"
    /\ LET cached_data == WeatherAPI_read_from_cache(api_cache, clock,
                                                     api_call.lat, api_call.lon)
           f == api_cache[WeatherAPI_get_cache_key(api_call.lat, api_call.lon)]
       IN  api_call' =
             IF ApiTruthy(cached_data)
             THEN [api_call EXCEPT !.pc = "done", !.age = clock - f.mtime,
                                   !.result = [cached_data EXCEPT !.from_cache = TRUE]]
             ELSE [api_call EXCEPT !.pc = "fetch"]
    /\ UNCHANGED <<cvars, calc, clock, cache, req, api_cache>>

\* requests.get, raise_for_status, response.json(), _save_to_cache
ApiFetch ==
    /\ api_call.pc = "fetch"
    /\ \E response \in ApiResponses :
         LET c == [api_call EXCEPT !.provider_calls = @ + 1,
                                   !.response_status = response.status]
         IN  IF \/ response.status = 0
                \/ raise_for_status(response.status)
                \/ response.body.kind = "notjson"
             THEN /\ api_call' = [c EXCEPT !.pc = "done", !.raised = TRUE]
                  /\ api_cache' = api_cache
             ELSE LET data == ApiData(response.body, FALSE)
                  IN  /\ api_cache' = WeatherAPI_save_to_cache(api_cache, clock,
                                         api_call.lat, api_call.lon, data,
                                         response.status)
                      /\ api_call' = [c EXCEPT !.pc = "done", !.result = data]
    /\ UNCHANGED <<cvars, calc, clock, cache, req>>

\* the call has returned or raised; the next may come
ApiReturn ==
    /\ api_call.pc = "done"
    /\ api_call' = NoApiCall
    /\ UNCHANGED <<cvars, calc, clock, cache, req, api_cache>>

ApiNext == ApiCall \/ ApiLookup \/ ApiFetch \/ ApiReturn \/ Tick

(***************************************************************************)
(* main.py under threads: get_humidity_info requests run in the server's   *)
(* threads and clean_cache in the scheduler's thread, all on the same      *)
(* cache file.                                                             *)
(*                                                                         *)
(* The file system: link is the inode the file name refers to (0 when the  *)
(* name does not exist) and inode[n] the content of inode n, a sequence of *)
(* tokens.  An open file is a handle on an inode and outlives unlink.      *)
(* The JSON document that set_cached_weather writes for thread w at time   *)
(* ts is the DocLen(w) tokens <<w, ts, 1>> .. <<w, ts, DocLen(w)>>; the    *)
(* timestamp is in the first token and the last token closes the object.   *)
(***************************************************************************)
Threads == {1, 2}
Inodes == 1..4

DocLen(w) == w + 1
Doc(w, ts) == [i \in 1..DocLen(w) |-> <<w, ts, i>>]

\* a file object without a buffer: one os.write for each piece of text
UnbufferedWrites(doc) == [i \in 1..Len(doc) |-> << doc[i] >>]

\* the os.write calls of "with open(cache_file, 'w') as f: json.dump(...)":
\* the document is smaller than the file object's buffer, so that close()
\* writes it in one call
BufferedWrites(doc) == << doc >>

\* what a read finds where the file was never written
Hole == <<0, 0, 0>>

\* os.write of chunk at offset pos; an offset beyond the end of the file
\* leaves a hole
WriteAt(content, pos, chunk) ==
    LET n == Len(chunk)
        before == [j \in 1..pos |-> IF j <= Len(content) THEN content[j] ELSE Hole]
        after == SubSeq(content, pos + n + 1, Len(content))
    IN  before \o chunk \o after

\* os.read to the end of the file from the offset the buffer has reached
ReadMore(buf, content) == buf \o SubSeq(content, Len(buf) + 1, Len(content))

\* json.load accepts the text: one whole object and nothing after it
WellFormed(text) ==
    /\ Len(text) > 0
    /\ \A j \in 1..Len(text) :
         /\ text[j][3] = j
         /\ (j = DocLen(text[j][1])) <=> (j = Len(text))

Miss == << >>
Returned(data, raised) == [data |-> data, raised |-> raised]

\* get_cached_weather from json.load on: the text read, at time now
get_cached_weather_of(text, now) ==
    IF ~WellFormed(text) THEN Returned(Miss, FALSE)
    ELSE IF now - text[1][2] < CACHE_TTL THEN Returned(text, FALSE)
    ELSE Returned(Miss, FALSE)

\* the inodes that a name or an open file refers to
InUse(f, t, c) ==
    {f.link} \cup { t[w].handle : w \in Threads } \cup {c.handle}

FreeInode(f, t, c) ==
    CHOOSE n \in Inodes : n \notin InUse(f, t, c) /\ \A k \in Inodes : k < n => k \in InUse(f, t, c)

\* an inode that nothing refers to any more is gone
Reclaim(f, t, c) ==
    [f EXCEPT !.inode = [n \in Inodes |->
        IF n \in InUse(f, t, c) THEN f.inode[n] ELSE << >>]]

\* What a read of the cache file met: nothing yet (""), no such file
\* ("absent"), a file unlinked after exists() ("gone"), a truncated file
\* ("empty"), text that json.load rejects ("torn") or accepts ("whole").
Saw(text) ==
    IF text = << >> THEN "empty" ELSE IF WellFormed(text) THEN "whole" ELSE "torn"

NoThread ==
    [pc |-> "idle", handle |-> 0, buf |-> << >>, saw |-> "", returned |-> FALSE,
     data |-> Miss, raised |-> FALSE, chunks |-> << >>, pos |-> 0,
     status |-> 0]

NoCleaner == [pc |-> "idle", now |-> 0, handle |-> 0]

\* what the threads of this part leave alone
rest == <<calc, clock, cache, req, avars>>

ConcInit ==
    /\ fs = [link |-> 0, inode |-> [n \in Inodes |-> << >>]]
    /\ thr = [w \in Threads |-> NoThread]
    /\ cln = NoCleaner

\* a request arrives and the handler calls get_cached_weather:
\* if not cache_file.exists(): return None
T_Exists(w) ==
    /\ thr[w].pc = "idle"
    /\ thr' = [thr EXCEPT ![w] =
                 IF fs.link = 0
                 THEN [@ EXCEPT !.pc = "fetch", !.saw = "absent",
                                !.returned = TRUE, !.data = Miss]
                 ELSE [@ EXCEPT !.pc = "open"]]
    /\ UNCHANGED <<fs, cln, rest>>

\* open(cache_file, 'r'): FileNotFoundError goes to the except clause
T_Open(w) ==
    /\ thr[w].pc = "open"
    /\ thr' = [thr EXCEPT ![w] =
                 IF fs.link = 0
                 THEN LET r == get_cached_weather_of(<< >>, clock)
                      IN  [@ EXCEPT !.pc = IF r.raised THEN "done" ELSE "fetch",
                                    !.saw = "gone",
                                    !.returned = TRUE, !.data = r.data,
                                    !.raised = r.raised,
                                    !.status = IF r.raised THEN 500 ELSE 0]
                 ELSE [@ EXCEPT !.pc = "read", !.handle = fs.link]]
    /\ UNCHANGED <<fs, cln, rest>>

\* json.load(f): the first read
T_Read(w) ==
    /\ thr[w].pc = "read"
    /\ thr' = [thr EXCEPT ![w] =
                 [@ EXCEPT !.pc = "load", !.buf = fs.inode[thr[w].handle]]]
    /\ UNCHANGED <<fs, cln, rest>>

\* json.load(f): the read that meets the end of the file, the parse, the
\* comparison of the timestamp with datetime.now() and the return
T_Load(w) ==
    /\ thr[w].pc = "load"
    /\ LET text == IF thr[w].buf = << >> THEN << >>
                   ELSE ReadMore(thr[w].buf, fs.inode[thr[w].handle])
           r == get_cached_weather_of(text, clock)
           t == [thr EXCEPT ![w] =
                   [@ EXCEPT !.pc = IF r.raised THEN "done"
                                    ELSE IF r.data = Miss THEN "fetch"
                                    ELSE "done",
                             !.handle = 0, !.buf = << >>, !.saw = Saw(text),
                             !.returned = TRUE,
                             !.data = r.data, !.raised = r.raised,
                             !.status = IF r.raised THEN 500
                                        ELSE IF r.data = Miss THEN 0 ELSE 200]]
       IN  /\ thr' = t
           /\ fs' = Reclaim(fs, t, cln)
    /\ UNCHANGED <<cln, rest>>

\* the provider answers 200 and set_cached_weather builds the document
T_Fetch(w) ==
    /\ thr[w].pc = "fetch"
    /\ thr' = [thr EXCEPT ![w] =
                 [@ EXCEPT !.pc = "wopen",
                           !.chunks = BufferedWrites(Doc(w, clock))]]
    /\ UNCHANGED <<fs, cln, rest>>

\* open(cache_file, 'w'): the file is created or truncated
T_WOpen(w) ==
    /\ thr[w].pc = "wopen"
    /\ LET n == IF fs.link = 0 THEN FreeInode(fs, thr, cln) ELSE fs.link
       IN  /\ fs' = [fs EXCEPT !.link = n, !.inode[n] = << >>]
           /\ thr' = [thr EXCEPT ![w] = [@ EXCEPT !.pc = "write", !.handle = n,
                                                  !.pos = 0]]
    /\ UNCHANGED <<cln, rest>>

\* the writes of json.dump and close(); the response follows the last one
T_Write(w) ==
    /\ thr[w].pc = "write"
    /\ LET chunk == Head(thr[w].chunks)
           last == Len(thr[w].chunks) = 1
           f == [fs EXCEPT !.inode[thr[w].handle] =
                    WriteAt(@, thr[w].pos, chunk)]
           t == [thr EXCEPT ![w] =
                    [@ EXCEPT !.chunks = Tail(@),
                              !.pos = @ + Len(chunk),
                              !.pc = IF last THEN "done" ELSE "write",
                              !.handle = IF last THEN 0 ELSE @,
                              !.status = IF last THEN 200 ELSE @]]
       IN  /\ thr' = t
           /\ fs' = Reclaim(f, t, cln)
    /\ UNCHANGED <<cln, rest>>

\* the response is sent
T_Done(w) ==
    /\ thr[w].pc = "done"
    /\ thr' = [thr EXCEPT ![w] = NoThread]
    /\ UNCHANGED <<fs, cln, rest>>

\* clean_cache starts: clean_expired_cache takes now, lists the files and
\* opens the one it finds (only clean_cache unlinks, so that a listed file
\* is still there)
C_Start ==
    /\ cln.pc = "idle"
    /\ cln' = IF fs.link = 0 THEN [NoCleaner EXCEPT !.pc = "trim", !.now = clock]
              ELSE [NoCleaner EXCEPT !.pc = "load", !.now = clock,
                                     !.handle = fs.link]
    /\ UNCHANGED <<fs, thr, rest>>

\* json.load(f) and the comparison with now: an entry of age >= CACHE_TTL
\* is to be unlinked, an unreadable one is skipped
C_Load ==
    /\ cln.pc = "load"
    /\ LET text == fs.inode[cln.handle]
           expired == WellFormed(text) /\ cln.now - text[1][2] >= CACHE_TTL
           c == [cln EXCEPT !.pc = IF expired THEN "unlink" ELSE "trim",
                            !.handle = 0]
       IN  /\ cln' = c
           /\ fs' = Reclaim(fs, thr, c)
    /\ UNCHANGED <<thr, rest>>

\* cache_file.unlink(): FileNotFoundError goes to the except clause
C_Unlink ==
    /\ cln.pc = "unlink"
    /\ cln' = [cln EXCEPT !.pc = "trim"]
    /\ fs' = Reclaim([fs EXCEPT !.link = 0], thr, cln)
    /\ UNCHANGED <<thr, rest>>

\* clean_cache after clean_expired_cache: the oldest files are unlinked
\* while there are more than MAX_CACHE_SIZE
C_Trim ==
    /\ cln.pc = "trim"
    /\ cln' = NoCleaner
    /\ LET files == IF fs.link = 0 THEN 0 ELSE 1
       IN  fs' = IF files > MAX_CACHE_SIZE
                 THEN Reclaim([fs EXCEPT !.link = 0], thr, cln)
                 ELSE fs
    /\ UNCHANGED <<thr, rest>>

ThreadStep ==
    \E w \in Threads :
        \/ T_Exists(w) \/ T_Open(w) \/ T_Read(w) \/ T_Load(w)
        \/ T_Fetch(w) \/ T_WOpen(w) \/ T_Write(w) \/ T_Done(w)

CleanerStep == C_Start \/ C_Load \/ C_Unlink \/ C_Trim

ConcNext == ThreadStep \/ CleanerStep \/ Tick

Init == CalcInit /\ ServiceInit /\ ApiInit /\ ConcInit

Next == Receive \/ Lookup \/ Fetch \/ Compute \/ Finish \/ Tick \/ clean_cache

Spec == Init /\ [][Next]_vars

SpecCalc == Init /\ [][CalcNext]_vars

SpecApi == Init /\ [][ApiNext]_vars

SpecConc == Init /\ [][ConcNext]_vars

(***************************************************************************)
(* Claims about the calculators, under SpecCalc.                           *)
(***************************************************************************)
AbsCalled == calc.fn \in {"abs", "abs+room"}
RoomCalled == calc.fn \in {"room", "abs+room"}

\* C1: calculate_absolute_humidity returns None whenever temp_c or
\* relative_humidity is None, and calculate_relative_humidity_for_room
\* returns None whenever absolute_humidity or room_temp_c is None, whatever
\* the other argument is, and without raising.
C1_MissingInputNoResult ==
    /\ (AbsCalled /\ (calc.temp_c = None \/ calc.relative_humidity = None))
          => calc.absolute_humidity = None
    /\ (RoomCalled /\ (calc.absolute_humidity = None \/ calc.room_temp_c = None))
          => calc.room_rh = None

C1_Witness ==
    /\ calc.impl = "utils"
    /\ calc.fn = "abs"
    /\ calc.temp_c = None
    /\ calc.relative_humidity = D(50, 0)
    /\ calc.absolute_humidity = None

C3_AbsoluteZeroNoResult ==
    (RoomCalled /\ calc.room_temp_c = D(-27315, -2) /\ calc.absolute_humidity # None)
        => calc.room_rh = None

RoundTrip ==
    /\ calc.fn = "abs+room"
    /\ calc.room_temp_c = calc.temp_c
    /\ Between(calc.temp_c, D(-50, 0), D(50, 0))
    /\ Between(calc.relative_humidity, D(0, 0), D(100, 0))

\* C4 (as claimed): for temp_c in [-50, 50] and relative_humidity in
\* [0, 100], calculate_relative_humidity_for_room(calculate_absolute_humidity(
\* temp_c, relative_humidity), temp_c) is within 0.1 of relative_humidity.
C4_RoundTripWithinTenth ==
    RoundTrip =>
        /\ IsFin(calc.room_rh)
        /\ LessEq(AbsF(Sub(calc.room_rh, calc.relative_humidity)), D(1, -1))

\* C4 (amended): the round trip is within 0.1 for temp_c in [12, 50]; on the
\* whole of [-50, 50] it is within 0.05 + 0.5 / AH_sat(temp_c), where
\* AH_sat(temp_c) is the unrounded absolute humidity at 100 %: rounding the
\* absolute humidity to 2 decimals moves the result by up to 0.5 / AH_sat
\* and rounding the result to 1 decimal by up to 0.05.
C4_RoundTripAmended ==
    RoundTrip =>
        /\ IsFin(calc.room_rh)
        /\ LessEq(D(12, 0), calc.temp_c) =>
             LessEq(AbsF(Sub(calc.room_rh, calc.relative_humidity)), D(1, -1))
        /\ LessEq(AbsF(Sub(calc.room_rh, calc.relative_humidity)),
                  Add(D(5, -2),
                      Div(D(5, -1), AbsoluteHumidityExpr(calc.temp_c, D(100, 0)))))

C4_Witness ==
    /\ RoundTrip
    /\ calc.impl = "utils"
    /\ calc.temp_c = D(30, 0)
    /\ calc.relative_humidity = D(45, 0)
    /\ calc.room_rh = D(45, 0)

WorkedExample ==
    AbsCalled /\ calc.temp_c = D(20, 0) /\ calc.relative_humidity = D(50, 0)

\* C5 (as claimed): calculate_absolute_humidity(20.0, 50.0) returns 8.65.
C5_ExampleIs865 == WorkedExample => calc.absolute_humidity = D(865, -2)

\* C5 (amended): calculate_absolute_humidity(20.0, 50.0) returns 8.64: the
\* formula gives es = 23.37 hPa and 8.636 g/m3 before rounding.
C5_ExampleIs864 == WorkedExample => calc.absolute_humidity = D(864, -2)

C5_Witness ==
    /\ WorkedExample
    /\ calc.impl = "utils"
    /\ calc.fn = "abs"
    /\ calc.absolute_humidity = D(864, -2)

RoomExample(rt) ==
    RoomCalled /\ calc.absolute_humidity = D(865, -2) /\ calc.room_temp_c = rt

\* C6 (as claimed): calculate_relative_humidity_for_room(8.65, 22.0) is in
\* [49.0, 51.0].
C6_RoomExampleNear50 ==
    RoomExample(D(22, 0)) => Between(calc.room_rh, D(49, 0), D(51, 0))

\* C6 (amended): calculate_relative_humidity_for_room(8.65, 22.0) returns
\* 44.6; it is at room_temp_c = 20.0 that 8.65 g/m3 gives a value within 1.0
\* of 50.0 (50.1).
C6_RoomExampleIs446 ==
    /\ RoomExample(D(22, 0)) => calc.room_rh = D(446, -1)
    /\ RoomExample(D(20, 0)) => calc.room_rh = D(501, -1)

C6_Witness ==
    /\ RoomExample(D(22, 0))
    /\ calc.impl = "utils"
    /\ calc.fn = "room"
    /\ calc.room_rh = D(446, -1)

(***************************************************************************)
(* Claims about get_humidity_info, under Spec.                             *)
(***************************************************************************)
\* (e_room / es_room) * 100 rounded to 1 decimal, from the formula alone
UnclampedRoomHumidity(absolute_humidity, room_temp_c) ==
    Round(RoomHumidityExpr(absolute_humidity, room_temp_c), 1)

UnclampedOf ==
    [b \in WeatherBodies, rt \in RoomTemps |->
        UnclampedRoomHumidity(AbsoluteHumidityOf[b], rt)]

\* both versions of calculate_relative_humidity_for_room on absolute
\* humidities below 0, within and above saturation
CalculatorsDoNotClamp ==
    \A impl \in Impls, ah \in AhArgs \ {None}, rt \in {D(10, 0), D(22, 0), D(40, 0)} :
        /\ RoomOf(impl, ah, rt) = UnclampedRoomHumidity(ah, rt)
        /\ ah.m < 0 => RoomOf(impl, ah, rt).m < 0
        /\ ah = D(100, 0) => Less(D(100, 0), RoomOf(impl, ah, rt))

\* C7: when calculate_relative_humidity_for_room computes a number it returns
\* (e_room / es_room) * 100 rounded to 1 decimal as it is, above 100 and below
\* 0 included, and a 200 response of get_humidity_info carries that value as
\* estimated_relative_humidity.
C7_NoClamping ==
    /\ CalculatorsDoNotClamp
    /\ (req.pc = "done" /\ req.status = 200 /\ IsNum(UnclampedOf[req.data, req.room_temp]))
          => req.room_rh = UnclampedOf[req.data, req.room_temp]

\* 30 C and 90 % outdoors is 140.8 % at the default room temperature
C7_Witness ==
    /\ req.pc = "done"
    /\ req.status = 200
    /\ req.room_arg = None
    /\ req.room_rh = D(1408, -1)

\* C8 (as claimed): None from either calculator ends the request with the
\* computation failure response (500), with a single provider call at most,
\* and no 200 response carries None as absolute or estimated relative
\* humidity.
C8_NoResultIsFailure ==
    (req.pc = "done" /\ req.calculated > 0) =>
        /\ (req.abs_humidity = None \/ (req.calculated = 2 /\ req.room_rh = None))
              => (req.status = 500 /\ req.error = "calculation")
        /\ req.status = 200 => (req.abs_humidity # None /\ req.room_rh # None)
        /\ req.provider_calls <= 1

\* C9 (as claimed): the room temperature given to
\* calculate_relative_humidity_for_room is 22.0 when the request has no
\* room_temp and is in [10, 40] otherwise; a request with a room_temp outside
\* [10, 40] is rejected: it reaches no call of that function and no 200
\* response.
C9_RoomTempValidated ==
    /\ req.calculated = 2 =>
          IF req.room_arg = None THEN req.room_temp = D(22, 0)
          ELSE validate_room_temp(req.room_temp)
    /\ (req.room_arg # None /\ ~validate_room_temp(req.room_arg))
          => req.status # 200

\* C10 (as claimed): the provider is called only after a cache lookup that
\* found no unexpired file for the request's key; a request that finds an
\* unexpired file calls no provider and, when it answers 200, reports
\* used_cache true.
C10_CacheBeforeProvider ==
    /\ req.provider_calls > 0 => req.found \in {"absent", "expired"}
    /\ req.pc \in {"fetch", "compute", "done"} /\ req.found = "fresh"
          => (req.pc # "fetch" /\ req.provider_calls = 0
              /\ (req.status = 200 => req.from_cache))

(***************************************************************************)
(* Claims about the time-to-live of the two caches.                        *)
(***************************************************************************)
\* C11 (as claimed): whatever was written, cleaned and however far the
\* clock went, get_cached_weather and WeatherAPI._read_from_cache return
\* data only from a file whose age is strictly less than the TTL, which is
\* a file that clean_expired_cache would leave in place at that moment.
C11_LookupOnlyYoungerThanTtl ==
    /\ \A c \in { d \in CoordArgs : validate_coordinates(d[1], d[2]) = 0 } :
         LET f == cache[get_cache_key(c[1], c[2])]
         IN  get_cached_weather(cache, clock, c[1], c[2]) # NoData =>
               /\ f.exists
               /\ clock - f.timestamp < CACHE_TTL
               /\ clean_expired_cache(cache, clock)[get_cache_key(c[1], c[2])] = f
    /\ \A c \in ApiCoordArgs :
         LET f == api_cache[WeatherAPI_get_cache_key(c[1], c[2])]
         IN  WeatherAPI_read_from_cache(api_cache, clock, c[1], c[2]) # ApiNone =>
               /\ f.exists
               /\ clock - f.mtime < cache_ttl

C13_OnlySuccessfulResponsesCached ==
    [][ /\ \A k \in CacheKeys :
             (cache'[k] # cache[k] /\ cache'[k].exists) =>
                 /\ req.pc = "fetch"
                 /\ req'.provider_status = 200
                 /\ k = get_cache_key(req.lat, req.lon)
                 /\ cache'[k].weather_data = req'.data
        /\ (req'.provider_calls > req.provider_calls /\ req'.provider_status # 200) =>
                 /\ req'.pc = "done"
                 /\ req'.status = 502
                 /\ cache' = cache ]_vars

=============================================================================
